---- MODULE Spec2Model ----
(***************************************************************************)
(* Model of the VLAN relay server of src/sence/vlan.py (class VLANServer). *)
(*                                                                         *)
(* One thread runs start() (bind, then the accept loop); every accepted    *)
(* connection gets its own thread running handle_client().  The two        *)
(* dictionaries self.clients and self.vlans are shared by all threads and  *)
(* are accessed without any lock, so the handler code is modelled one      *)
(* dictionary/set operation per step: threads may be switched between any  *)
(* two of them.  Sets are heap objects: self.vlans maps a group to a set   *)
(* object, and a set iterator keeps a reference to the object it walks.    *)
(* The k-th set object that line 102 creates for group g is object k of g. *)
(***************************************************************************)
EXTENDS Integers, FiniteSets, Sequences, TLC

\* Number of connections the accept loop hands out in one run of the model.
MaxConns == 3

\* Number of handler threads that are between two blocking reads at the same
\* time: a peer's message is taken up only while fewer handlers are busy.
MaxBusy == 2

\* Number of broadcasts that are in progress at the same time.
MaxDispatch == 1

\* The connections (the sockets returned by accept).  Handlers that wait for
\* their first message are indistinguishable, so the connections are numbered
\* in the order in which they are accepted and their first messages arrive.
Conns == 1..MaxConns

\* The values of the 'client_id' and 'vlan_id' fields clients send.  The server
\* treats both as opaque dictionary keys, so the names are interchangeable and
\* the registrations introduce them in this order (the first registration of a
\* run names "A" and "floor1", the first one with another id names "B", ...).
IdOrder == <<"A", "B", "C">>
GroupOrder == <<"floor1", "floor2">>
ClientIDs == {IdOrder[i] : i \in 1..Len(IdOrder)}
Groups == {GroupOrder[i] : i \in 1..Len(GroupOrder)}

\* A local variable of handle_client that no assignment has reached yet.
Unbound == "unbound"
\* A field that is missing from a decoded registration object.
Missing == "missing"
\* "No socket" (key absent from self.clients) and "no set object".
NoSock == 0
NoSet == 0

\* VLANServer.__init__: port: int = 5000
DefaultPort == 5000

\* No direct call of a method has been made yet.
NoCall == [op |-> "none", cid |-> Unbound, gid |-> Unbound, absent |-> FALSE,
           raised |-> FALSE, written |-> {}, failed |-> {}]

VARIABLES
    srv,        \* position of the start() thread
    port,       \* self.port
    clients,    \* self.clients : client id -> socket (NoSock: key absent)
    vlans,      \* self.vlans   : group -> its set object (NoSet: key absent)
    sets,       \* heap: sets[g][k] is the content of object k of group g
    pc,         \* position of each handle_client thread
    client_id,  \* handle_client local client_id
    vlan_id,    \* handle_client local vlan_id
    itSet,      \* broadcast_to_vlan: set object the for loop iterates
    itSize,     \* size of that set when the iterator was created
    itSeen,     \* client ids the iterator has yielded so far
    cur,        \* broadcast_to_vlan loop variable client_id
    sock,       \* socket fetched by self.clients[client_id] for the send
    closed,     \* client_socket.close() has been called on the connection
    snap,       \* history: ids in the group's set when the dispatch started
    snapConns,  \* history: sockets of those ids, sender excluded, at that time
    written,    \* history: sockets send() was called on in this broadcast
    failed,     \* history: sockets whose send() raised in this broadcast
    closedAtStart, \* history: connections closed when the dispatch started
    regCalls,   \* history: number of register_client calls of the handler
    unregCalls, \* history: number of unregister_client calls of the handler
    why,        \* history: what ended the handler's try block
    idsUsed,    \* environment: how many of IdOrder the peers have named so far
    groupsUsed, \* environment: how many of GroupOrder they have named so far
    api         \* the last direct call of a VLANServer method and its outcome

vars == <<srv, port, clients, vlans, sets, pc, client_id, vlan_id, itSet,
          itSize, itSeen, cur, sock, closed, snap, snapConns, written, failed,
          closedAtStart,
          regCalls, unregCalls, why, idsUsed, groupsUsed, api>>

srvVars == <<srv, port>>
envVars == <<idsUsed, groupsUsed>>
mapVars == <<clients, vlans, sets>>
idVars == <<client_id, vlan_id>>
iterVars == <<itSet, itSize, itSeen, cur, sock>>
histVars == <<snap, snapConns, written, failed, closedAtStart>>
callVars == <<regCalls, unregCalls>>

-----------------------------------------------------------------------------
(* What one recv() on a connection can give the handler. *)

\* recv raises (OSError), or the bytes do not decode.
IoError == [kind |-> "ioerror", cid |-> Missing, gid |-> Missing]
\* recv returns b'' : the peer closed the connection.
Eof == [kind |-> "eof", cid |-> Missing, gid |-> Missing]
\* Bytes that are not a JSON document.
Garbage == [kind |-> "garbage", cid |-> Missing, gid |-> Missing]
\* A JSON object; either field may be missing.
Objects == [kind : {"object"}, cid : ClientIDs \cup {Missing},
            gid : Groups \cup {Missing}]

Payloads == {IoError, Eof, Garbage} \cup Objects

\* json.loads(data): '' and garbage raise JSONDecodeError.
JsonOk(p) == p.kind = "object"

\* Lines 63-66: the locals bound when the registration payload is p.
\* client_id is assigned before vlan_id is looked up.
RegClientId(p) == IF JsonOk(p) /\ p.cid # Missing THEN p.cid ELSE Unbound
RegVlanId(p) ==
    IF JsonOk(p) /\ p.cid # Missing /\ p.gid # Missing THEN p.gid ELSE Unbound

\* Position of a name in the order of introduction.
IdIndex(c) == CHOOSE i \in 1..Len(IdOrder) : IdOrder[i] = c
GroupIndex(g) == CHOOSE i \in 1..Len(GroupOrder) : GroupOrder[i] = g
Max(a, b) == IF a >= b THEN a ELSE b

-----------------------------------------------------------------------------
Init ==
    /\ srv = "bind"
    /\ port = DefaultPort
    /\ clients = [c \in ClientIDs |-> NoSock]
    /\ vlans = [g \in Groups |-> NoSet]
    /\ sets = [g \in Groups |-> [k \in Conns |-> {}]]
    /\ pc = [h \in Conns |-> "idle"]
    /\ client_id = [h \in Conns |-> Unbound]
    /\ vlan_id = [h \in Conns |-> Unbound]
    /\ itSet = [h \in Conns |-> NoSet]
    /\ itSize = [h \in Conns |-> 0]
    /\ itSeen = [h \in Conns |-> {}]
    /\ cur = [h \in Conns |-> Unbound]
    /\ sock = [h \in Conns |-> NoSock]
    /\ closed = [h \in Conns |-> FALSE]
    /\ snap = [h \in Conns |-> {}]
    /\ snapConns = [h \in Conns |-> {}]
    /\ written = [h \in Conns |-> {}]
    /\ failed = [h \in Conns |-> {}]
    /\ closedAtStart = [h \in Conns |-> {}]
    /\ regCalls = [h \in Conns |-> 0]
    /\ unregCalls = [h \in Conns |-> 0]
    /\ why = [h \in Conns |-> "none"]
    /\ idsUsed = 0
    /\ groupsUsed = 0
    /\ api = NoCall

-----------------------------------------------------------------------------
(* VLANServer.start *)

\* Lines 33-36: the first bind/listen succeeds.
BindOk ==
    /\ srv = "bind"
    /\ srv' = "accepting"
    /\ UNCHANGED <<port, mapVars, pc, idVars, iterVars, closed, histVars,
                   callVars, why, envVars, api>>

\* Lines 37-40: the first bind raises OSError; the port is incremented.
BindFail ==
    /\ srv = "bind"
    /\ port' = port + 1
    /\ srv' = "rebind"
    /\ UNCHANGED <<mapVars, pc, idVars, iterVars, closed, histVars,
                   callVars, why, envVars, api>>

\* Lines 41-43: the bind in the except clause succeeds.
RebindOk ==
    /\ srv = "rebind"
    /\ srv' = "accepting"
    /\ UNCHANGED <<port, mapVars, pc, idVars, iterVars, closed, histVars,
                   callVars, why, envVars, api>>

\* RebindFail with an unbounded fallback: every failed bind moves on to the
\* next port and tries again.
RebindFail_NextPort ==
    /\ srv = "rebind"
    /\ port' = port + 1
    /\ srv' = "rebind"
    /\ UNCHANGED <<mapVars, pc, idVars, iterVars, closed, histVars,
                   callVars, why, envVars, api>>

\* Line 41: the bind in the except clause raises; start() ends with OSError.
RebindFail ==
    /\ srv = "rebind"
    /\ srv' = "aborted"
    /\ UNCHANGED <<port, mapVars, pc, idVars, iterVars, closed, histVars,
                   callVars, why, envVars, api>>

\* Lines 45-52: accept one connection and start its handler thread.
Accept ==
    /\ srv = "accepting"
    /\ \E h \in Conns :
        /\ pc[h] = "idle"
        /\ \A k \in Conns : k < h => pc[k] # "idle"
        /\ pc' = [pc EXCEPT ![h] = "recv_reg"]
    /\ UNCHANGED <<srvVars, mapVars, idVars, iterVars, closed, histVars,
                   callVars, why, envVars, api>>

-----------------------------------------------------------------------------
(* VLANServer.handle_client, with register_client, unregister_client and   *)
(* broadcast_to_vlan inlined at their call sites.                          *)

\* The handler threads that are not blocked in recv and have not ended.
Busy(h) == pc[h] \notin {"idle", "recv_reg", "recv", "done", "dead"}
Room == Cardinality({k \in Conns : Busy(k)}) < MaxBusy

\* The handler threads that are inside broadcast_to_vlan.
Dispatching(h) ==
    pc[h] \in {"bc_start", "bc_next", "bc_test", "bc_get", "bc_send", "bc_done"}
DispatchRoom == Cardinality({k \in Conns : Dispatching(k)}) < MaxDispatch

\* Line 87 evaluates client_id and vlan_id: a local that was never bound
\* raises UnboundLocalError inside the finally clause.
FinallyRaises(cid, gid) == cid = Unbound \/ gid = Unbound

\* RecvRegistration with line 100 keeping an entry that is already there
\* (self.clients.setdefault(client_id, client_socket)).
RecvRegistration_KeepFirst(h) ==
    /\ pc[h] = "recv_reg"
    /\ \A k \in Conns : k < h => pc[k] # "recv_reg"
    /\ \E p \in Payloads :
        LET cid == RegClientId(p)
            gid == RegVlanId(p)
        IN  IF FinallyRaises(cid, gid)
              THEN /\ pc' = [pc EXCEPT ![h] = "dead"]
                   /\ why' = [why EXCEPT ![h] = "badreg"]
                   /\ UNCHANGED <<clients, idVars, regCalls, envVars>>
              ELSE /\ Room
                   /\ IdIndex(cid) <= idsUsed + 1
                   /\ GroupIndex(gid) <= groupsUsed + 1
                   /\ idsUsed' = Max(idsUsed, IdIndex(cid))
                   /\ groupsUsed' = Max(groupsUsed, GroupIndex(gid))
                   /\ client_id' = [client_id EXCEPT ![h] = cid]
                   /\ vlan_id' = [vlan_id EXCEPT ![h] = gid]
                   /\ regCalls' = [regCalls EXCEPT ![h] = @ + 1]
                   /\ clients' = IF clients[cid] = NoSock
                                   THEN [clients EXCEPT ![cid] = h]
                                   ELSE clients
                   /\ pc' = [pc EXCEPT ![h] = "reg_test"]
                   /\ why' = why
    /\ UNCHANGED <<srvVars, vlans, sets, iterVars, closed, histVars,
                   unregCalls, api>>

\* Lines 61-69 and 100: read and decode the registration message, call
\* register_client and store the socket in self.clients.
\* Lines 84-87 when the read or the decoding raises (OSError,
\* JSONDecodeError, KeyError): the exception is caught and logged, and the
\* finally clause raises UnboundLocalError, which ends the thread before
\* unregister_client and close are reached.
RecvRegistration(h) ==
    /\ pc[h] = "recv_reg"
    /\ \A k \in Conns : k < h => pc[k] # "recv_reg"
    /\ \E p \in Payloads :
        LET cid == RegClientId(p)
            gid == RegVlanId(p)
        IN  IF FinallyRaises(cid, gid)
              THEN /\ pc' = [pc EXCEPT ![h] = "dead"]
                   /\ why' = [why EXCEPT ![h] = "badreg"]
                   /\ UNCHANGED <<clients, idVars, regCalls, envVars>>
              ELSE /\ Room
                   /\ IdIndex(cid) <= idsUsed + 1
                   /\ GroupIndex(gid) <= groupsUsed + 1
                   /\ idsUsed' = Max(idsUsed, IdIndex(cid))
                   /\ groupsUsed' = Max(groupsUsed, GroupIndex(gid))
                   /\ client_id' = [client_id EXCEPT ![h] = cid]
                   /\ vlan_id' = [vlan_id EXCEPT ![h] = gid]
                   /\ regCalls' = [regCalls EXCEPT ![h] = @ + 1]
                   /\ clients' = [clients EXCEPT ![cid] = h]
                   /\ pc' = [pc EXCEPT ![h] = "reg_test"]
                   /\ why' = why
    /\ UNCHANGED <<srvVars, vlans, sets, iterVars, closed, histVars,
                   unregCalls, api>>

\* Line 101: if vlan_id not in self.vlans
RegTest(h) ==
    /\ pc[h] = "reg_test"
    /\ pc' = [pc EXCEPT ![h] = IF vlans[vlan_id[h]] = NoSet
                                 THEN "reg_new" ELSE "reg_add"]
    /\ UNCHANGED <<srvVars, mapVars, idVars, iterVars, closed, histVars,
                   callVars, why, envVars, api>>

\* Line 102: self.vlans[vlan_id] = set().  The object that was there loses
\* its last reference, and is freed, unless an iterator still walks it.
RegNew(h) ==
    /\ pc[h] = "reg_new"
    /\ LET g == vlan_id[h]
           old == vlans[g]
           new == old + 1
           walked == \E k \in Conns :
                        Dispatching(k) /\ vlan_id[k] = g /\ itSet[k] = old
       IN  /\ vlans' = [vlans EXCEPT ![g] = new]
           /\ sets' = [sets EXCEPT ![g] =
                         [k \in Conns |->
                            IF k = new \/ (k = old /\ ~walked) THEN {}
                            ELSE @[k]]]
    /\ pc' = [pc EXCEPT ![h] = "reg_add"]
    /\ UNCHANGED <<srvVars, clients, idVars, iterVars, closed, histVars,
                   callVars, why, envVars, api>>

\* Line 103: self.vlans[vlan_id].add(client_id)
RegAdd(h) ==
    /\ pc[h] = "reg_add"
    /\ sets' = [sets EXCEPT ![vlan_id[h]][vlans[vlan_id[h]]] =
                                                   @ \cup {client_id[h]}]
    /\ pc' = [pc EXCEPT ![h] = "recv"]
    /\ UNCHANGED <<srvVars, clients, vlans, idVars, iterVars, closed,
                   histVars, callVars, why, envVars, api>>

\* Recv that treats a later payload carrying 'client_id' and 'vlan_id' as a
\* new registration: it rebinds the locals and calls register_client again.
Recv_Reregisters(h) ==
    /\ pc[h] = "recv"
    /\ \E p \in Payloads :
        IF JsonOk(p)
          THEN /\ Room
               /\ DispatchRoom
               /\ why' = why
               /\ IF p.cid # Missing /\ p.gid # Missing
                    THEN /\ client_id' = [client_id EXCEPT ![h] = p.cid]
                         /\ vlan_id' = [vlan_id EXCEPT ![h] = p.gid]
                         /\ regCalls' = [regCalls EXCEPT ![h] = @ + 1]
                         /\ clients' = [clients EXCEPT ![p.cid] = h]
                         /\ pc' = [pc EXCEPT ![h] = "reg_test"]
                    ELSE /\ pc' = [pc EXCEPT ![h] = "bc_start"]
                         /\ UNCHANGED <<clients, idVars, regCalls>>
          ELSE /\ Room
               /\ pc' = [pc EXCEPT ![h] = "finally"]
               /\ why' = [why EXCEPT ![h] = p.kind]
               /\ UNCHANGED <<clients, idVars, regCalls>>
    /\ UNCHANGED <<srvVars, vlans, sets, iterVars, closed, histVars,
                   unregCalls, envVars, api>>

\* Lines 73-82: one pass of the read loop up to the call of broadcast_to_vlan.
\* An empty read and a JSONDecodeError break out of the loop; any other
\* exception is caught by line 84.  All of them lead to the finally clause.
Recv(h) ==
    /\ pc[h] = "recv"
    /\ \E p \in Payloads :
        IF JsonOk(p)
          THEN /\ Room
               /\ DispatchRoom
               /\ pc' = [pc EXCEPT ![h] = "bc_start"]
               /\ why' = why
          ELSE /\ Room
               /\ pc' = [pc EXCEPT ![h] = "finally"]
               /\ why' = [why EXCEPT ![h] = p.kind]
    /\ UNCHANGED <<srvVars, mapVars, idVars, iterVars, closed, histVars,
                   callVars, envVars, api>>

\* Lines 127-130: return when the group is unknown, else fetch the group's set
\* object and create the iterator of the for loop.
BcStart(h) ==
    /\ pc[h] = "bc_start"
    /\ IF vlans[vlan_id[h]] = NoSet
         THEN /\ pc' = [pc EXCEPT ![h] = "bc_done"]
              /\ UNCHANGED <<itSet, itSize, snap, snapConns>>
         ELSE LET k == vlans[vlan_id[h]]
                  S == sets[vlan_id[h]][k]
              IN  /\ pc' = [pc EXCEPT ![h] = "bc_next"]
                  /\ itSet' = [itSet EXCEPT ![h] = k]
                  /\ itSize' = [itSize EXCEPT ![h] = Cardinality(S)]
                  /\ snap' = [snap EXCEPT ![h] = S]
                  /\ snapConns' = [snapConns EXCEPT ![h] =
                        {clients[m] : m \in S \ {client_id[h]}} \ {NoSock}]
    /\ itSeen' = [itSeen EXCEPT ![h] = {}]
    /\ written' = [written EXCEPT ![h] = {}]
    /\ failed' = [failed EXCEPT ![h] = {}]
    /\ closedAtStart' = [closedAtStart EXCEPT ![h] =
                            {k \in Conns : closed[k]}]
    /\ UNCHANGED <<srvVars, mapVars, idVars, cur, sock, closed, callVars, why,
                   envVars, api>>

\* Line 130: one step of the set iterator.  It raises RuntimeError ("Set
\* changed size during iteration") when the set no longer has the size it had
\* when the iterator was created; the error leaves broadcast_to_vlan and is
\* caught by line 84.  Otherwise it yields an element it has not passed yet:
\* the elements that were there from the start are all yielded, in hash
\* order; an element added meanwhile is yielded or not, depending on the
\* slot it landed in.
BcNext(h) ==
    /\ pc[h] = "bc_next"
    /\ LET S == sets[vlan_id[h]][itSet[h]]
           must == (S \cap snap[h]) \ itSeen[h]
           may == (S \ snap[h]) \ itSeen[h]
       IN  IF Cardinality(S) # itSize[h]
             THEN /\ pc' = [pc EXCEPT ![h] = "finally"]
                  /\ why' = [why EXCEPT ![h] = "dispatch"]
                  /\ UNCHANGED <<cur, itSeen>>
             ELSE /\ why' = why
                  /\ \/ \E m \in must \cup may :
                          /\ cur' = [cur EXCEPT ![h] = m]
                          /\ itSeen' = [itSeen EXCEPT ![h] = @ \cup {m}]
                          /\ pc' = [pc EXCEPT ![h] = "bc_test"]
                     \/ /\ must = {}
                        /\ pc' = [pc EXCEPT ![h] = "bc_done"]
                        /\ UNCHANGED <<cur, itSeen>>
    /\ UNCHANGED <<srvVars, mapVars, idVars, itSet, itSize, sock, closed,
                   histVars, callVars, envVars, api>>

\* BcTest without the comparison with sender_id.
BcTest_NoSenderSkip(h) ==
    /\ pc[h] = "bc_test"
    /\ pc' = [pc EXCEPT ![h] =
                IF clients[cur[h]] # NoSock THEN "bc_get" ELSE "bc_next"]
    /\ UNCHANGED <<srvVars, mapVars, idVars, iterVars, closed, histVars,
                   callVars, why, envVars, api>>

\* Line 131: if client_id != sender_id and client_id in self.clients
BcTest(h) ==
    /\ pc[h] = "bc_test"
    /\ pc' = [pc EXCEPT ![h] =
                IF cur[h] # client_id[h] /\ clients[cur[h]] # NoSock
                  THEN "bc_get" ELSE "bc_next"]
    /\ UNCHANGED <<srvVars, mapVars, idVars, iterVars, closed, histVars,
                   callVars, why, envVars, api>>

\* Line 133, self.clients[client_id]: a KeyError (the entry was deleted after
\* the test of line 131) is caught by line 134 and the loop goes on.
BcGet(h) ==
    /\ pc[h] = "bc_get"
    /\ IF clients[cur[h]] = NoSock
         THEN /\ pc' = [pc EXCEPT ![h] = "bc_next"]
              /\ sock' = sock
         ELSE /\ pc' = [pc EXCEPT ![h] = "bc_send"]
              /\ sock' = [sock EXCEPT ![h] = clients[cur[h]]]
    /\ UNCHANGED <<srvVars, mapVars, idVars, itSet, itSize, itSeen, cur,
                   closed, histVars, callVars, why, envVars, api>>

\* BcSend without the try/except of lines 132-135: an exception of send
\* leaves broadcast_to_vlan and ends the sender's read loop.
BcSend_RaisesToCaller(h) ==
    /\ pc[h] = "bc_send"
    /\ written' = [written EXCEPT ![h] = @ \cup {sock[h]}]
    /\ \E ok \in BOOLEAN :
        /\ ok => ~closed[sock[h]]
        /\ failed' = [failed EXCEPT ![h] = IF ok THEN @ ELSE @ \cup {sock[h]}]
        /\ pc' = [pc EXCEPT ![h] = IF ok THEN "bc_next" ELSE "finally"]
        /\ why' = [why EXCEPT ![h] = IF ok THEN @ ELSE "ioerror"]
    /\ sock' = [sock EXCEPT ![h] = NoSock]
    /\ UNCHANGED <<srvVars, mapVars, idVars, itSet, itSize, itSeen, cur,
                   closed, snap, snapConns, closedAtStart, callVars,
                   envVars, api>>

\* Lines 133-135, .send(json.dumps(message).encode()): send on a socket that
\* was closed raises OSError; on an open one it succeeds or raises (the peer
\* is gone).  The exception is caught and logged, and the loop goes on.
BcSend(h) ==
    /\ pc[h] = "bc_send"
    /\ written' = [written EXCEPT ![h] = @ \cup {sock[h]}]
    /\ \E ok \in BOOLEAN :
        /\ ok => ~closed[sock[h]]
        /\ failed' = [failed EXCEPT ![h] = IF ok THEN @ ELSE @ \cup {sock[h]}]
    /\ sock' = [sock EXCEPT ![h] = NoSock]
    /\ pc' = [pc EXCEPT ![h] = "bc_next"]
    /\ UNCHANGED <<srvVars, mapVars, idVars, itSet, itSize, itSeen, cur,
                   closed, snap, snapConns, closedAtStart, callVars, why,
                   envVars, api>>

\* broadcast_to_vlan returns (line 128, or the for loop ends) and the read
\* loop of line 71 starts its next pass; the locals of the call are dropped.
BcDone(h) ==
    /\ pc[h] = "bc_done"
    /\ pc' = [pc EXCEPT ![h] = "recv"]
    /\ itSet' = [itSet EXCEPT ![h] = NoSet]
    /\ itSize' = [itSize EXCEPT ![h] = 0]
    /\ itSeen' = [itSeen EXCEPT ![h] = {}]
    /\ cur' = [cur EXCEPT ![h] = Unbound]
    /\ snap' = [snap EXCEPT ![h] = {}]
    /\ snapConns' = [snapConns EXCEPT ![h] = {}]
    /\ written' = [written EXCEPT ![h] = {}]
    /\ failed' = [failed EXCEPT ![h] = {}]
    /\ closedAtStart' = [closedAtStart EXCEPT ![h] = {}]
    /\ UNCHANGED <<srvVars, mapVars, idVars, sock, closed, callVars, why,
                   envVars, api>>

\* Finally without the call of unregister_client: the finally clause only
\* closes the socket.
Finally_NoUnregister(h) ==
    /\ pc[h] = "finally"
    /\ pc' = [pc EXCEPT ![h] = "close"]
    /\ why' = [why EXCEPT ![h] = "none"]
    /\ itSet' = [itSet EXCEPT ![h] = NoSet]
    /\ itSize' = [itSize EXCEPT ![h] = 0]
    /\ itSeen' = [itSeen EXCEPT ![h] = {}]
    /\ cur' = [cur EXCEPT ![h] = Unbound]
    /\ snap' = [snap EXCEPT ![h] = {}]
    /\ snapConns' = [snapConns EXCEPT ![h] = {}]
    /\ written' = [written EXCEPT ![h] = {}]
    /\ failed' = [failed EXCEPT ![h] = {}]
    /\ closedAtStart' = [closedAtStart EXCEPT ![h] = {}]
    /\ UNCHANGED <<srvVars, mapVars, idVars, sock, closed, callVars,
                   envVars, api>>

\* Lines 86-87 and 113: the finally clause calls unregister_client, which
\* tests  client_id in self.clients.  The locals of a broadcast that raised
\* are dropped.
Finally(h) ==
    /\ pc[h] = "finally"
    /\ ~FinallyRaises(client_id[h], vlan_id[h])
    /\ pc' = [pc EXCEPT ![h] = IF clients[client_id[h]] # NoSock
                                 THEN "unreg_del" ELSE "unreg_test"]
    /\ unregCalls' = [unregCalls EXCEPT ![h] = @ + 1]
    /\ why' = [why EXCEPT ![h] = "none"]
    /\ itSet' = [itSet EXCEPT ![h] = NoSet]
    /\ itSize' = [itSize EXCEPT ![h] = 0]
    /\ itSeen' = [itSeen EXCEPT ![h] = {}]
    /\ cur' = [cur EXCEPT ![h] = Unbound]
    /\ snap' = [snap EXCEPT ![h] = {}]
    /\ snapConns' = [snapConns EXCEPT ![h] = {}]
    /\ written' = [written EXCEPT ![h] = {}]
    /\ failed' = [failed EXCEPT ![h] = {}]
    /\ closedAtStart' = [closedAtStart EXCEPT ![h] = {}]
    /\ UNCHANGED <<srvVars, mapVars, idVars, sock, closed, regCalls, envVars,
                   api>>

\* Line 114: del self.clients[client_id].  A KeyError (another thread deleted
\* the key after the test of line 113) leaves the finally clause: the thread
\* ends without reaching lines 115-116 and close.
UnregDel(h) ==
    /\ pc[h] = "unreg_del"
    /\ IF clients[client_id[h]] = NoSock
         THEN /\ pc' = [pc EXCEPT ![h] = "dead"]
              /\ clients' = clients
              /\ client_id' = [client_id EXCEPT ![h] = Unbound]
              /\ vlan_id' = [vlan_id EXCEPT ![h] = Unbound]
         ELSE /\ pc' = [pc EXCEPT ![h] = "unreg_test"]
              /\ clients' = [clients EXCEPT ![client_id[h]] = NoSock]
              /\ UNCHANGED idVars
    /\ UNCHANGED <<srvVars, vlans, sets, iterVars, closed, histVars,
                   callVars, why, envVars, api>>

\* Line 115: if vlan_id in self.vlans and client_id in self.vlans[vlan_id]
UnregTest(h) ==
    /\ pc[h] = "unreg_test"
    /\ pc' = [pc EXCEPT ![h] =
                IF /\ vlans[vlan_id[h]] # NoSet
                   /\ client_id[h] \in sets[vlan_id[h]][vlans[vlan_id[h]]]
                  THEN "unreg_remove" ELSE "close"]
    /\ UNCHANGED <<srvVars, mapVars, idVars, iterVars, closed, histVars,
                   callVars, why, envVars, api>>

\* UnregRemove that also drops the group when its last member leaves
\* (del self.vlans[vlan_id] once the set is empty).
UnregRemove_DropsEmptyGroup(h) ==
    /\ pc[h] = "unreg_remove"
    /\ LET g == vlan_id[h]
           k == vlans[g]
       IN
       IF client_id[h] \in sets[g][k]
         THEN /\ sets' = [sets EXCEPT ![g][k] = @ \ {client_id[h]}]
              /\ vlans' = IF sets[g][k] = {client_id[h]}
                            THEN [vlans EXCEPT ![g] = NoSet] ELSE vlans
              /\ pc' = [pc EXCEPT ![h] = "close"]
              /\ UNCHANGED idVars
         ELSE /\ sets' = sets
              /\ vlans' = vlans
              /\ pc' = [pc EXCEPT ![h] = "dead"]
              /\ client_id' = [client_id EXCEPT ![h] = Unbound]
              /\ vlan_id' = [vlan_id EXCEPT ![h] = Unbound]
    /\ UNCHANGED <<srvVars, clients, iterVars, closed,
                   histVars, callVars, why, envVars, api>>

\* Line 116: self.vlans[vlan_id].remove(client_id).  set.remove raises
\* KeyError when the element is gone; the thread then ends without close.
UnregRemove(h) ==
    /\ pc[h] = "unreg_remove"
    /\ LET g == vlan_id[h]
           k == vlans[g]
       IN
       IF client_id[h] \in sets[g][k]
         THEN /\ sets' = [sets EXCEPT ![g][k] = @ \ {client_id[h]}]
              /\ pc' = [pc EXCEPT ![h] = "close"]
              /\ UNCHANGED idVars
         ELSE /\ sets' = sets
              /\ pc' = [pc EXCEPT ![h] = "dead"]
              /\ client_id' = [client_id EXCEPT ![h] = Unbound]
              /\ vlan_id' = [vlan_id EXCEPT ![h] = Unbound]
    /\ UNCHANGED <<srvVars, clients, vlans, iterVars, closed,
                   histVars, callVars, why, envVars, api>>

\* Line 88: client_socket.close(), after which handle_client returns and the
\* thread's locals are gone.
Close(h) ==
    /\ pc[h] = "close"
    /\ closed' = [closed EXCEPT ![h] = TRUE]
    /\ pc' = [pc EXCEPT ![h] = "done"]
    /\ client_id' = [client_id EXCEPT ![h] = Unbound]
    /\ vlan_id' = [vlan_id EXCEPT ![h] = Unbound]
    /\ UNCHANGED <<srvVars, mapVars, iterVars, histVars, callVars,
                   why, envVars, api>>

Handler(h) ==
    \/ RecvRegistration(h)
    \/ RegTest(h)
    \/ RegNew(h)
    \/ RegAdd(h)
    \/ Recv(h)
    \/ BcStart(h)
    \/ BcNext(h)
    \/ BcTest(h)
    \/ BcGet(h)
    \/ BcSend(h)
    \/ BcDone(h)
    \/ Finally(h)
    \/ UnregDel(h)
    \/ UnregTest(h)
    \/ UnregRemove(h)
    \/ Close(h)

Next ==
    \/ BindOk
    \/ BindFail
    \/ RebindOk
    \/ RebindFail
    \/ Accept
    \/ \E h \in Conns : Handler(h)

Spec == Init /\ [][Next]_vars

TypeOK ==
    /\ srv \in {"bind", "rebind", "accepting", "aborted"}
    /\ port \in {DefaultPort, DefaultPort + 1}
    /\ clients \in [ClientIDs -> Conns \cup {NoSock}]
    /\ vlans \in [Groups -> Conns \cup {NoSet}]
    /\ sets \in [Groups -> [Conns -> SUBSET ClientIDs]]
    /\ client_id \in [Conns -> ClientIDs \cup {Unbound}]
    /\ vlan_id \in [Conns -> Groups \cup {Unbound}]
    /\ closed \in [Conns -> BOOLEAN]
    /\ regCalls \in [Conns -> 0..1]
    /\ unregCalls \in [Conns -> 0..1]

-----------------------------------------------------------------------------
(* Properties *)

\* The handlers that have registered and have not ended.
Live(h) == client_id[h] # Unbound /\ vlan_id[h] # Unbound

\* The handlers inside the read loop of lines 71-82.
Relaying(h) == pc[h] = "recv" \/ Dispatching(h)

\* The handlers whose register_client has returned and whose
\* unregister_client has not been called yet.
Registered(h) == Relaying(h) \/ pc[h] = "finally"

\* The handlers in the middle of register_client or unregister_client.
InMaps(h) ==
    pc[h] \in {"reg_test", "reg_new", "reg_add",
               "unreg_del", "unreg_test", "unreg_remove"}

\* self.vlans[g] as a set of client ids (empty when the key is absent).
Members(g) == IF vlans[g] = NoSet THEN {} ELSE sets[g][vlans[g]]

\* The largest element of a non-empty set of connections.
MaxOf(S) == CHOOSE x \in S : \A y \in S : y <= x

-----------------------------------------------------------------------------
(* The three public methods called directly by one thread, with nothing      *)
(* else running: each call runs from its first line to its return.  M is the *)
(* pair of dictionaries (and the set objects) the call starts with; the      *)
(* result holds what it leaves and whether an exception left the method.     *)

Maps == [clients |-> clients, vlans |-> vlans, sets |-> sets]

\* Lines 100-103.
register_client(M, cid, gid, s) ==
    LET c1 == [M.clients EXCEPT ![cid] = s]
        new == M.vlans[gid] = NoSet
        v1 == IF new THEN [M.vlans EXCEPT ![gid] = @ + 1] ELSE M.vlans
        k == v1[gid]
        s0 == IF new THEN [M.sets EXCEPT ![gid][k] = {}] ELSE M.sets
        s1 == [s0 EXCEPT ![gid][k] = @ \cup {cid}]
    IN  [clients |-> c1, vlans |-> v1, sets |-> s1, raised |-> FALSE]

\* unregister_client without the tests of lines 113 and 115: the del and the
\* remove are unconditional and raise KeyError on an absent key or element.
unregister_client_NoTest(M, cid, gid) ==
    LET delRaises == M.clients[cid] = NoSock
        c1 == [M.clients EXCEPT ![cid] = NoSock]
        remRaises == \/ M.vlans[gid] = NoSet
                     \/ cid \notin M.sets[gid][M.vlans[gid]]
        s1 == IF delRaises \/ remRaises THEN M.sets
              ELSE [M.sets EXCEPT ![gid][M.vlans[gid]] = @ \ {cid}]
    IN  [clients |-> c1, vlans |-> M.vlans, sets |-> s1,
         raised |-> delRaises \/ remRaises]

\* Lines 113-116.  del raises KeyError on an absent key and set.remove on an
\* absent element; each runs only when the test before it found the key.
unregister_client(M, cid, gid) ==
    LET del == M.clients[cid] # NoSock
        delRaises == del /\ M.clients[cid] = NoSock
        c1 == IF del THEN [M.clients EXCEPT ![cid] = NoSock] ELSE M.clients
        rem == /\ M.vlans[gid] # NoSet
               /\ cid \in M.sets[gid][M.vlans[gid]]
        remRaises == rem /\ cid \notin M.sets[gid][M.vlans[gid]]
        s1 == IF rem /\ ~delRaises
                THEN [M.sets EXCEPT ![gid][M.vlans[gid]] = @ \ {cid}]
                ELSE M.sets
    IN  [clients |-> c1, vlans |-> M.vlans, sets |-> s1,
         raised |-> delRaises \/ remRaises]

\* broadcast_to_vlan that forgets a recipient whose send raised (the except
\* clause deletes its entry from self.clients).
broadcast_to_vlan_DropsFailed(M, gid, sender_id, bad) ==
    IF M.vlans[gid] = NoSet
      THEN [clients |-> M.clients, vlans |-> M.vlans, sets |-> M.sets,
            raised |-> FALSE, written |-> {}, failed |-> {}]
      ELSE LET S == M.sets[gid][M.vlans[gid]]
               to == {M.clients[m] :
                        m \in {x \in S : x # sender_id
                                          /\ M.clients[x] # NoSock}}
           IN  [clients |-> [c \in ClientIDs |->
                               IF M.clients[c] \in to \cap bad
                                 THEN NoSock ELSE M.clients[c]],
                vlans |-> M.vlans, sets |-> M.sets,
                raised |-> FALSE, written |-> to, failed |-> to \cap bad]

\* Lines 127-135; bad is the set of sockets whose send raises.  The loop
\* visits every member of the group's set once.
broadcast_to_vlan(M, gid, sender_id, bad) ==
    IF M.vlans[gid] = NoSet
      THEN [clients |-> M.clients, vlans |-> M.vlans, sets |-> M.sets,
            raised |-> FALSE, written |-> {}, failed |-> {}]
      ELSE LET S == M.sets[gid][M.vlans[gid]]
               to == {M.clients[m] :
                        m \in {x \in S : x # sender_id
                                          /\ M.clients[x] # NoSock}}
           IN  [clients |-> M.clients, vlans |-> M.vlans, sets |-> M.sets,
                raised |-> FALSE, written |-> to, failed |-> to \cap bad]

ApiRegister ==
    \E cid \in ClientIDs : \E gid \in Groups : \E s \in Conns :
        LET R == register_client(Maps, cid, gid, s)
        IN  /\ clients' = R.clients
            /\ vlans' = R.vlans
            /\ sets' = R.sets
            /\ api' = [op |-> "register", cid |-> cid, gid |-> gid,
                       absent |-> clients[cid] = NoSock /\ cid \notin Members(gid),
                       raised |-> R.raised, written |-> {}, failed |-> {}]
            /\ UNCHANGED <<srvVars, pc, idVars, iterVars, closed, histVars,
                           callVars, why, envVars>>

ApiUnregister ==
    \E cid \in ClientIDs : \E gid \in Groups :
        LET R == unregister_client(Maps, cid, gid)
        IN  /\ clients' = R.clients
            /\ vlans' = R.vlans
            /\ sets' = R.sets
            /\ api' = [op |-> "unregister", cid |-> cid, gid |-> gid,
                       absent |-> clients[cid] = NoSock /\ cid \notin Members(gid),
                       raised |-> R.raised, written |-> {}, failed |-> {}]
            /\ UNCHANGED <<srvVars, pc, idVars, iterVars, closed, histVars,
                           callVars, why, envVars>>

ApiBroadcast ==
    \E gid \in Groups : \E sender_id \in ClientIDs : \E bad \in SUBSET Conns :
        LET R == broadcast_to_vlan(Maps, gid, sender_id, bad)
        IN  /\ clients' = R.clients
            /\ vlans' = R.vlans
            /\ sets' = R.sets
            /\ api' = [op |-> "broadcast", cid |-> sender_id, gid |-> gid,
                       absent |-> vlans[gid] = NoSet,
                       raised |-> R.raised, written |-> R.written,
                       failed |-> R.failed]
            /\ UNCHANGED <<srvVars, pc, idVars, iterVars, closed, histVars,
                           callVars, why, envVars>>

ApiNext == ApiRegister \/ ApiUnregister \/ ApiBroadcast

ApiSpec == Init /\ [][ApiNext]_vars

-----------------------------------------------------------------------------
\* C1: a broadcast with sender S in group G is written to exactly the
\* connections the members of G other than S had when the dispatch started,
\* and never to a connection that registered into another group.
C1_DeliveredExactlyToGroup ==
    \A h \in Conns :
        /\ pc[h] = "bc_done" => written[h] = snapConns[h]
        /\ \A c \in written[h] : Live(c) => vlan_id[c] = vlan_id[h]

\* C2: whenever no handler is in the middle of register_client or
\* unregister_client, every client id in a group's set has a Registry entry,
\* and the entry is the connection of a live handler that registered that id.
C2_NoDanglingMembership ==
    (\A h \in Conns : ~InMaps(h)) =>
        \A g \in Groups : \A m \in Members(g) :
            /\ clients[m] # NoSock
            /\ Live(clients[m])
            /\ client_id[clients[m]] = m

\* C3: when handlers with distinct client ids have registered, every
\* register_client that was called has returned and none has unregistered,
\* each of them is in its group's set and in the Registry.
C3_NoLostRegistration ==
    \A h \in Conns :
        ( /\ Registered(h)
          /\ \A j \in Conns : unregCalls[j] = 0 /\ ~InMaps(j)
          /\ \A j \in Conns \ {h} : Live(j) => client_id[j] # client_id[h] )
        => /\ client_id[h] \in Members(vlan_id[h])
           /\ clients[client_id[h]] = h

\* C4: a handler that registered and has ended has called unregister_client
\* exactly once and has closed its connection.
C4_CleanupOnEveryExit ==
    \A h \in Conns :
        (regCalls[h] = 1 /\ pc[h] \in {"done", "dead"})
        => (unregCalls[h] = 1 /\ closed[h])

\* C5: a connection whose first payload is malformed or absent is closed,
\* register_client is never called for it and the Registry does not hold it.
C5_BadRegistrationCloses ==
    \A h \in Conns :
        why[h] = "badreg"
        => /\ closed[h]
           /\ regCalls[h] = 0
           /\ \A c \in ClientIDs : clients[c] # h

\* C6: a step of one handler's unregister_client never removes or changes the
\* Registry entry or the group membership of another connection that is in
\* its read loop.
C6_TerminationIsLocal ==
    [][ \A h \in Conns :
          (pc[h] \in {"unreg_del", "unreg_remove"} /\ pc'[h] # pc[h])
          => \A k \in Conns \ {h} :
               Relaying(k)
               => /\ clients[client_id[k]] = k
                       => clients'[client_id[k]] = k
                  /\ client_id[k] \in Members(vlan_id[k])
                       => client_id[k] \in Members(vlan_id[k])' ]_vars

\* C7: whatever the outcome of a send (it raised or not), the sender's loop
\* goes on to the next step of its iteration, the sender's handler keeps its
\* identity and stays in the read loop, and the Registry and the Directory
\* are unchanged; and the loop ends only when the iterator has yielded every
\* member it started with that is still in the set.
C7_WriteFailureIsolated ==
    [][ \A h \in Conns :
          /\ (pc[h] = "bc_send" /\ pc'[h] # "bc_send")
             => /\ pc'[h] = "bc_next"
                /\ Relaying(h)'
                /\ written'[h] = written[h] \cup {sock[h]}
                /\ UNCHANGED <<clients, vlans, sets, client_id, vlan_id,
                               itSeen, why>>
          /\ (pc[h] = "bc_next" /\ pc'[h] = "bc_done")
             => (sets[vlan_id[h]][itSet[h]] \cap snap[h]) \subseteq itSeen[h]
      ]_vars

\* C7 happens: a broadcast ran to its end although one send raised, and
\* another member was written to.
C7_Witness ==
    \E h \in Conns :
        /\ pc[h] = "bc_done"
        /\ failed[h] # {}
        /\ written[h] \ failed[h] # {}

\* C8: a payload is never written to the connection of the handler that
\* broadcasts it, nor is that connection fetched for the send.
C8_NoSelfDelivery ==
    \A h \in Conns : h \notin written[h] /\ sock[h] # h

\* C8 happens: a handler finished a broadcast that was written to some
\* connection while another live connection shares its client id.
C8_Witness ==
    \E h \in Conns : \E k \in Conns \ {h} :
        /\ pc[h] = "bc_done"
        /\ written[h] # {}
        /\ Live(k)
        /\ client_id[k] = client_id[h]
        /\ vlan_id[k] = vlan_id[h]

\* C9: a broadcast that starts after connection B was closed is not written
\* to B, is not written to the sender, and, when every other connection that
\* ever registered was closed before it started, does not raise to the
\* sender's handler.
C9_NoDeliveryAfterDisconnect ==
    \A a \in Conns :
        /\ \A b \in closedAtStart[a] : b \notin written[a] /\ sock[a] # b
        /\ a \notin written[a]
        /\ ( /\ closedAtStart[a] # {}
             /\ \A k \in Conns \ {a} :
                    k \in closedAtStart[a] \/ regCalls[k] = 0 )
           => ~(pc[a] = "finally" /\ why[a] = "dispatch")

\* C9 happens: two connections registered, with different ids, into the one
\* group used; one of them was closed, and the other then ran a broadcast to
\* its end.
C9_Witness ==
    \E a \in Conns : \E b \in Conns \ {a} :
        /\ b \in closedAtStart[a]
        /\ regCalls[b] = 1
        /\ pc[a] = "bc_done"
        /\ written[a] = {}
        /\ groupsUsed = 1
        /\ idsUsed = 2
        /\ \A k \in Conns \ {a, b} : regCalls[k] = 0

\* C10: while no handler has unregistered, the Registry entry of a client id
\* is the connection that registered it most recently (connections register
\* in the order of their numbers), and every connection holding the id is
\* open with its handler running.
C10_LastWriteWins ==
    (\A j \in Conns : unregCalls[j] = 0) =>
        \A c \in ClientIDs :
            LET holders == {h \in Conns : Live(h) /\ client_id[h] = c}
            IN  holders # {} =>
                    /\ clients[c] = MaxOf(holders)
                    /\ \A h \in holders :
                          ~closed[h] /\ (InMaps(h) \/ Registered(h))

\* C10 happens: two connections have registered the same client id, both are
\* in the read loop, and the Registry holds the later one.
C10_Witness ==
    \E h \in Conns : \E k \in Conns :
        /\ h < k
        /\ Relaying(h) /\ Relaying(k)
        /\ client_id[h] = client_id[k]
        /\ clients[client_id[h]] = k
        /\ ~closed[h]
        /\ \A j \in Conns : unregCalls[j] = 0

\* C11: a direct call of unregister_client for a client id that is neither
\* in the Registry nor in the named group's set (the group may have no entry)
\* raises nothing and leaves the Registry and every group's set unchanged.
C11_UnregisterAbsentIsNoOp ==
    [][ (api'.op = "unregister" /\ api'.absent)
        => (~api'.raised /\ UNCHANGED <<clients, vlans, sets>>) ]_vars

\* C11 happens: unregister_client was called, while some client is
\* registered, for an absent id and a group that has no Directory entry.
C11_Witness ==
    /\ api.op = "unregister"
    /\ api.absent
    /\ ~api.raised
    /\ vlans[api.gid] = NoSet
    /\ \E c \in ClientIDs : clients[c] # NoSock

\* The handlers whose unregister_client is past the removal of the Registry
\* entry (line 114), or has ended.
PastDel(k) ==
    \/ pc[k] \in {"unreg_test", "unreg_remove", "close", "done"}
    \/ pc[k] = "dead" /\ unregCalls[k] = 1

\* C12: send is never called on a connection that was closed, nor on one whose
\* handler has already removed its Registry entry.
C12_NoWriteAfterClose ==
    [][ \A h \in Conns :
          (pc[h] = "bc_send" /\ pc'[h] # "bc_send")
          => (~closed[sock[h]] /\ ~PastDel(sock[h])) ]_vars

\* C13: the delivery loop of a broadcast never fails because the group's set
\* changed under it, and when it ends it has visited exactly the client ids
\* that were in the set when the dispatch started.
C13_RecipientsAreSnapshot ==
    \A h \in Conns :
        /\ ~(pc[h] = "finally" /\ why[h] = "dispatch")
        /\ pc[h] = "bc_done" => itSeen[h] = snap[h]

\* C14: in every state a client id is in the set of at most one group.
C14_OneGroupPerClient ==
    \A c \in ClientIDs : \A g1 \in Groups : \A g2 \in Groups :
        (c \in Members(g1) /\ c \in Members(g2)) => g1 = g2

C16_GroupsNeverDestroyed ==
    [][ /\ \A g \in Groups : vlans[g] # NoSet => vlans'[g] # NoSet
        /\ \A h \in Conns :
             (pc[h] = "unreg_remove" /\ pc'[h] = "close")
             => /\ vlans'[vlan_id[h]] = vlans[vlan_id[h]]
                /\ Members(vlan_id[h])' = Members(vlan_id[h]) \ {client_id[h]}
      ]_vars

\* C16 happens: every handler that registered into the one group used has
\* unregistered and ended, and the group's entry is there with the empty set.
C16_Witness ==
    /\ groupsUsed = 1
    /\ vlans[GroupOrder[1]] # NoSet
    /\ Members(GroupOrder[1]) = {}
    /\ \E h \in Conns : pc[h] = "done" /\ unregCalls[h] = 1
    /\ \A h \in Conns : regCalls[h] = 1 => pc[h] = "done"

\* C17: whenever every handler that was started has ended, the Registry is
\* empty and the set of every group is empty.
C17_NoLeakAtQuiescence ==
    (\A h \in Conns : pc[h] \in {"idle", "done", "dead"})
    => /\ \A c \in ClientIDs : clients[c] = NoSock
       /\ \A g \in Groups : Members(g) = {}

-----------------------------------------------------------------------------
(* The server with peers that keep client ids unique among the connections   *)
(* they have open: a connection registers an id only when no handler that is *)
(* still running holds it, and no handler that registered has ended without  *)
(* closing its connection.  A peer that reuses an id as soon as it has       *)
(* closed the previous connection can do at least this.                      *)

UniqueIds ==
    \A h \in Conns :
        (pc[h] = "recv_reg" /\ pc'[h] = "reg_test")
        => \A k \in Conns \ {h} :
              /\ ~(Live(k) /\ client_id[k] = client_id'[h])
              /\ ~(pc[k] = "dead" /\ regCalls[k] = 1)

UniqueHandler(h) ==
    \/ RecvRegistration(h) /\ UniqueIds
    \/ RegTest(h)
    \/ RegNew(h)
    \/ RegAdd(h)
    \/ Recv(h)
    \/ BcStart(h)
    \/ BcNext(h)
    \/ BcTest(h)
    \/ BcGet(h)
    \/ BcSend(h)
    \/ BcDone(h)
    \/ Finally(h)
    \/ UnregDel(h)
    \/ UnregTest(h)
    \/ UnregRemove(h)
    \/ Close(h)

UniqueNext ==
    \/ BindOk
    \/ BindFail
    \/ RebindOk
    \/ RebindFail
    \/ Accept
    \/ \E h \in Conns : UniqueHandler(h)

UniqueSpec == Init /\ [][UniqueNext]_vars

\* C18: when the peers keep client ids unique among their open connections,
\* send is never called on a connection whose handler registered into a
\* group other than the one the payload is broadcast in.
C18_IsolationUnderUniqueIds ==
    [][ \A h \in Conns :
          (pc[h] = "bc_send" /\ pc'[h] # "bc_send")
          => (Live(sock[h]) => vlan_id[sock[h]] = vlan_id[h]) ]_vars

\* C19: a direct call of broadcast_to_vlan raises nothing and leaves
\* self.clients, self.vlans and every set as they were; for a group without
\* an entry it writes to no connection, and every connection whose send
\* raised is still in the Registry afterwards.
C19_BroadcastLeavesMaps ==
    [][ api'.op = "broadcast"
        => /\ UNCHANGED <<clients, vlans, sets>>
           /\ ~api'.raised
           /\ vlans[api'.gid] = NoSet => api'.written = {}
           /\ \A f \in api'.failed : \E c \in ClientIDs : clients'[c] = f
      ]_vars

\* C19 happens: a broadcast to a known group wrote to one connection whose
\* send raised and to another whose send succeeded.
C19_Witness ==
    /\ api.op = "broadcast"
    /\ vlans[api.gid] # NoSet
    /\ api.failed # {}
    /\ api.written \ api.failed # {}

\* C20: a handler calls register_client at most once, from its first
\* payload, and unregister_client only after that; it is inside
\* broadcast_to_vlan only after its register and before its unregister; its
\* client id and group stay what the registration bound them to until the
\* handler ends; and a later payload is relayed or ends the loop without
\* touching the Registry or the Directory.
C20_HandlerOrdering ==
    [][ \A h \in Conns :
          /\ regCalls'[h] <= 1
          /\ regCalls'[h] # regCalls[h]
             => (pc[h] = "recv_reg" /\ unregCalls[h] = 0
                 /\ clients'[client_id'[h]] = h)
          /\ unregCalls'[h] # unregCalls[h]
             => (regCalls[h] = 1 /\ unregCalls[h] = 0 /\ ~Dispatching(h)')
          /\ Dispatching(h)'
             => (regCalls'[h] = 1 /\ unregCalls'[h] = 0 /\ Live(h)')
          /\ (Live(h) /\ pc'[h] \notin {"done", "dead"})
             => (client_id'[h] = client_id[h] /\ vlan_id'[h] = vlan_id[h])
          /\ (pc[h] = "recv" /\ pc'[h] # "recv")
             => (pc'[h] \in {"bc_start", "finally"}
                 /\ UNCHANGED <<clients, vlans, sets>>)
      ]_vars

\* C20 happens: a handler that registered once and has not unregistered has
\* relayed a later payload to another connection and is back in its read
\* loop's dispatch return.
C20_Witness ==
    \E h \in Conns :
        /\ pc[h] = "bc_done"
        /\ regCalls[h] = 1
        /\ unregCalls[h] = 0
        /\ written[h] # {}
        /\ failed[h] = {}

====
